---- MODULE Spec2Model ----
(***************************************************************************)
(* A model of the photo gallery server of src/server.js (with its template *)
(* module src/template.js).                                                *)
(*                                                                         *)
(* Strings are sequences of tokens.  A token is either one character that  *)
(* the code treats specially ("/", ".", "?", "&", "=", "%", the double     *)
(* quote Q, the backslash BS, a percent escape such as "%20") or a run of  *)
(* ordinary characters ("gallery", "png").  Concatenation is \o, and two   *)
(* strings are equal when their token sequences are.                       *)
(***************************************************************************)
EXTENDS Integers, Sequences, FiniteSets, TLC

VARIABLES
  alive,       \* the process runs (no handler has thrown)
  config,      \* config.title, in memory
  configFile,  \* the text of config.json
  cfgWrites,   \* the writes of config.json that were started and have not ended
  images,      \* the directory images/
  catalog,     \* the directory catalog/
  reqs,        \* the requests being handled
  last,        \* the request the last step answered or finished, as it left it
  stored       \* history of the uploads (see below)

vars == <<alive, config, configFile, cfgWrites, images, catalog, reqs, last, stored>>

(***************************************************************************)
(* Bounds of the model.                                                    *)
(***************************************************************************)
\* the number of requests the server handles at a time
MaxInFlight == 2
\* the number of writes of config.json that are under way at a time
MaxCfgWrites == 2

(***************************************************************************)
(* Tokens and string helpers.                                              *)
(***************************************************************************)
Q == "\""
BS == "\\"
Undefined == <<"undefined">>

Range(s) == {s[i] : i \in DOMAIN s}

\* the index of the first occurrence of token c in s at or after i, 0 if none
RECURSIVE IndexFrom(_, _, _)
IndexFrom(s, c, i) ==
  IF i > Len(s) THEN 0 ELSE IF s[i] = c THEN i ELSE IndexFrom(s, c, i + 1)

\* String.prototype.split(sep) for a one-character separator
RECURSIVE Split(_, _)
Split(s, sep) ==
  LET i == IndexFrom(s, sep, 1)
  IN  IF i = 0 THEN <<s>>
      ELSE <<SubSeq(s, 1, i - 1)>> \o Split(SubSeq(s, i + 1, Len(s)), sep)

\* Array.prototype.join("") of a sequence of strings
RECURSIVE Join(_)
Join(ss) == IF ss = <<>> THEN <<>> ELSE Head(ss) \o Join(Tail(ss))

\* xs[i] of a JavaScript array: undefined (here <<>> with def = FALSE) past the end
HasIndex(xs, i) == i >= 1 /\ i <= Len(xs)

(***************************************************************************)
(* Percent encoding.  The escapes the model knows, as pairs                *)
(* <<escape, character>>.                                                  *)
(***************************************************************************)
Escapes ==
  { <<"%20", " ">>, <<"%25", "%">>, <<"%3F", "?">>, <<"%22", Q>>,
    <<"%26", "&">>, <<"%3D", "=">>, <<"%2F", "/">> }

IsEscape(t) == \E e \in Escapes : e[1] = t
Unescape(t) == (CHOOSE e \in Escapes : e[1] = t)[2]
NeedsEscape(t) == \E e \in Escapes : e[2] = t
EscapeOf(t) == (CHOOSE e \in Escapes : e[2] = t)[1]

\* encodeURIComponent, as a client applies it to a file name or a title
encodeURIComponent(s) ==
  [i \in DOMAIN s |-> IF NeedsEscape(s[i]) THEN EscapeOf(s[i]) ELSE s[i]]

\* decodeURIComponent throws URIError on a "%" that starts no escape
DecodeThrows(s) == \E i \in DOMAIN s : s[i] = "%"

decodeURIComponent(s) ==
  [i \in DOMAIN s |-> IF IsEscape(s[i]) THEN Unescape(s[i]) ELSE s[i]]

(***************************************************************************)
(* JSON.  A JSON text is a string; white space between its tokens is left  *)
(* out.  A value is a string [t |-> "str", s |-> tokens] or an object      *)
(* [t |-> "obj", m |-> sequence of <<key, value>>].                        *)
(***************************************************************************)
Str(s) == [t |-> "str", s |-> s, m |-> <<>>]
Obj(m) == [t |-> "obj", s |-> <<>>, m |-> m]
JSUndefined == [t |-> "undefined", s |-> <<>>, m |-> <<>>]

ParseFail == [ok |-> FALSE, val |-> JSUndefined, next |-> 0]

\* the characters of a string literal from position j on, up to the closing quote
RECURSIVE ScanString(_, _, _)
ScanString(s, j, acc) ==
  IF j > Len(s) THEN ParseFail
  ELSE IF s[j] = Q THEN [ok |-> TRUE, val |-> Str(acc), next |-> j + 1]
  ELSE IF s[j] = BS
    THEN IF j + 1 <= Len(s) /\ s[j + 1] \in {Q, BS, "/"}
           THEN ScanString(s, j + 2, Append(acc, s[j + 1]))
           ELSE ParseFail
  ELSE ScanString(s, j + 1, Append(acc, s[j]))

RECURSIVE ParseValue(_, _)
RECURSIVE ParseMembers(_, _, _)
ParseMembers(s, i, acc) ==
  IF i > Len(s) \/ s[i] # Q THEN ParseFail
  ELSE LET k == ScanString(s, i + 1, <<>>)
       IN  IF ~k.ok \/ k.next > Len(s) \/ s[k.next] # ":" THEN ParseFail
           ELSE LET v == ParseValue(s, k.next + 1)
                    all == Append(acc, <<k.val.s, v.val>>)
                IN  IF ~v.ok \/ v.next > Len(s) THEN ParseFail
                    ELSE IF s[v.next] = "," THEN ParseMembers(s, v.next + 1, all)
                    ELSE IF s[v.next] = "}"
                      THEN [ok |-> TRUE, val |-> Obj(all), next |-> v.next + 1]
                    ELSE ParseFail

ParseValue(s, i) ==
  IF i > Len(s) THEN ParseFail
  ELSE IF s[i] = Q THEN ScanString(s, i + 1, <<>>)
  ELSE IF s[i] = "{"
    THEN IF i + 1 <= Len(s) /\ s[i + 1] = "}"
           THEN [ok |-> TRUE, val |-> Obj(<<>>), next |-> i + 2]
           ELSE ParseMembers(s, i + 1, <<>>)
  ELSE ParseFail

\* JSON.parse: ok = FALSE stands for the SyntaxError it throws
JSONParse(s) ==
  LET r == ParseValue(s, 1)
  IN  IF r.ok /\ r.next = Len(s) + 1 THEN [ok |-> TRUE, val |-> r.val]
      ELSE [ok |-> FALSE, val |-> JSUndefined]

\* the string literal JSON.stringify writes for a string
RECURSIVE Quoted(_)
Quoted(s) ==
  IF s = <<>> THEN <<>>
  ELSE (IF Head(s) \in {Q, BS} THEN <<BS, Head(s)>> ELSE <<Head(s)>>) \o Quoted(Tail(s))

\* JSON.stringify of the config object { title: ... }
StringifyConfig(title) == <<"{", Q, "title", Q, ":", Q>> \o Quoted(title) \o <<Q, "}">>

\* o[key] of a JavaScript value: the last member of that name, else undefined
RECURSIVE LastMember(_, _, _)
LastMember(m, key, i) ==
  IF i = 0 THEN JSUndefined
  ELSE IF m[i][1] = key THEN m[i][2] ELSE LastMember(m, key, i - 1)

Prop(v, key) == IF v.t = "obj" THEN LastMember(v.m, key, Len(v.m)) ELSE JSUndefined

(***************************************************************************)
(* Templates.  A template is a sequence of parts: literal text, or a       *)
(* placeholder <%= context.a.b %> given by its property path <<a, b>>.     *)
(* The files under templates/ are not part of the sources; these two hold  *)
(* what the pages are said to show.                                        *)
(***************************************************************************)
Lit(s) == [k |-> "lit", v |-> s]
Js(path) == [k |-> "js", v |-> path]

GalleryTemplate ==
  << Lit(<<"<h1>">>), Js(<<<<"title">>>>), Lit(<<"</h1>">>),
     Js(<<<<"imageTags">>>>) >>

DetailTemplate ==
  << Js(<<<<"image">>, <<"imageTag">>>>),
     Lit(<<"<h2>">>), Js(<<<<"image">>, <<"title">>>>), Lit(<<"</h2>">>),
     Lit(<<"<p>">>), Js(<<<<"image">>, <<"description">>>>), Lit(<<"</p>">>) >>

Templates(name) == IF name = "gallery.html" THEN GalleryTemplate ELSE DetailTemplate

\* evaluating context.a.b: reading a property of undefined throws
RECURSIVE EvalPath(_, _)
EvalPath(v, path) ==
  IF path = <<>> THEN [ok |-> TRUE, val |-> v]
  ELSE IF v.t = "undefined" THEN [ok |-> FALSE, val |-> v]
  ELSE EvalPath(Prop(v, Head(path)), Tail(path))

\* what String.prototype.replace inserts for a value
ToText(v) ==
  IF v.t = "str" THEN v.s
  ELSE IF v.t = "undefined" THEN Undefined
  ELSE <<"[object Object]">>

RECURSIVE RenderParts(_, _)
RenderParts(parts, context) ==
  IF parts = <<>> THEN [ok |-> TRUE, html |-> <<>>]
  ELSE LET rest == RenderParts(Tail(parts), context)
           p == Head(parts)
       IN  IF p.k = "lit" THEN [ok |-> rest.ok, html |-> p.v \o rest.html]
           ELSE LET e == EvalPath(context, p.v)
                IN  IF e.ok THEN [ok |-> rest.ok, html |-> ToText(e.val) \o rest.html]
                    ELSE [ok |-> FALSE, html |-> <<>>]

\* template.render(templateName, context); ok = FALSE when the evaluation throws
render(templateName, context) == RenderParts(Templates(templateName), context)

\* one <a><img></a> tag of the gallery
ImageTag(fileName) ==
  <<"<a href=", Q, "detail", "/">> \o fileName \o <<Q, "><img src=", Q>> \o fileName
    \o <<Q, " alt=", Q>> \o fileName \o <<Q, "></a>">>

\* a faulty imageNamesToTags: it leaves out the last file
imageNamesToTagsShort(fileNames) ==
  [i \in 1..(Len(fileNames) - 1) |-> ImageTag(fileNames[i])]

imageNamesToTags(fileNames) == [i \in DOMAIN fileNames |-> ImageTag(fileNames[i])]

buildGallery(imageTags, title) ==
  LET newTags == Join(imageNamesToTags(imageTags))
  IN  render("gallery.html",
             Obj(<< <<<<"title">>, Str(title)>>, <<<<"imageTags">>, Str(newTags)>> >>))

buildDetail(imageTag, data) == render("detail.html", data)

\* the text uploadJSON writes into the catalog file
CatalogText(filename, title, description) ==
  LET iFileName == <<"images", "/">> \o filename
      qFileName == <<"'">> \o iFileName \o <<"'">>
  IN  <<"{", Q, "image", Q, ":", "{", Q, "imageName", Q, ":", Q>> \o iFileName
        \o <<Q, ",", Q, "imageTag", Q, ":", Q, "<a href=">> \o qFileName
        \o <<"><img src=">> \o qFileName \o <<" alt=">> \o qFileName
        \o <<"></a>", Q, ",", Q, "title", Q, ":", Q>> \o title
        \o <<Q, ",", Q, "description", Q, ":", Q>> \o description \o <<Q, "}", "}">>

\* a faulty catalog path: one file for every name
CatalogPathOne(filename) == <<"catalog", "/", "x", ".", "json">>

\* 'catalog/' + name.split('.')[0] + '.json'
CatalogPath(filename) == <<"catalog", "/">> \o Split(filename, ".")[1] \o <<".", "json">>

(***************************************************************************)
(* The file system.  A directory is the sequence of its entries            *)
(* [name, data] in the order readdir lists them.  A path names an entry of *)
(* directory dir when it is dir/<name> up to empty segments; there are no  *)
(* subdirectories.                                                         *)
(***************************************************************************)
NoName == <<>>

Segments(path) == SelectSeq(Split(path, "/"), LAMBDA seg : seg # <<>>)

\* the entry name a path stands for, NoName when it names no possible entry
EntryName(path, dir) ==
  LET segs == Segments(path)
  IN  IF Len(segs) = 2 /\ segs[1] = <<dir>> THEN segs[2] ELSE NoName

Names(d) == [i \in DOMAIN d |-> d[i].name]
Exists(d, name) == \E i \in DOMAIN d : d[i].name = name
DataOf(d, name) == d[CHOOSE i \in DOMAIN d : d[i].name = name].data

\* a faulty fs.writeFile: it adds an entry even when the name has one
StoreTwice(d, name, data) == Append(d, [name |-> name, data |-> data])

\* fs.writeFile on an entry: replace the data in place, or add the entry
Store(d, name, data) ==
  IF Exists(d, name)
    THEN [i \in DOMAIN d |-> IF d[i].name = name THEN [name |-> name, data |-> data] ELSE d[i]]
    ELSE Append(d, [name |-> name, data |-> data])

(***************************************************************************)
(* url.parse and the title parameter.                                      *)
(***************************************************************************)
UrlParse(url) ==
  LET q == IndexFrom(url, "?", 1)
  IN  IF q = 0 THEN [pathname |-> url, query |-> <<>>]
      ELSE [pathname |-> SubSeq(url, 1, q - 1), query |-> SubSeq(url, q + 1, Len(url))]

\* /title=(.+)($|&)/.exec(query): the positions where "title=" is followed by
\* at least one character; the greedy (.+) then runs to the end of the query
TitleStarts(query) ==
  {i \in DOMAIN query : /\ query[i] = "title"
                        /\ i + 2 <= Len(query)
                        /\ query[i + 1] = "="}

HasTitleMatch(query) == TitleStarts(query) # {}

TitleMatch(query) ==
  LET i == CHOOSE j \in TitleStarts(query) : \A k \in TitleStarts(query) : j <= k
  IN  SubSeq(query, i + 2, Len(query))

(***************************************************************************)
(* Requests and responses.                                                 *)
(***************************************************************************)
NoBody == [filename |-> <<>>, data |-> <<>>, title |-> <<>>, description |-> <<>>]

\* http.ServerResponse: statusCode is what the code assigns, status and body
\* are what the first res.end sent, ends counts the calls of res.end
ResNew == [statusCode |-> 200, sent |-> FALSE, status |-> 0, body |-> <<>>,
           ctype |-> "", ends |-> 0]

Idle == [state |-> "idle", method |-> "", url |-> <<>>, body |-> NoBody,
         pending |-> {}, path |-> <<>>, res |-> ResNew, seen |-> {},
         pred |-> <<>>, lastw |-> FALSE, werr |-> FALSE, wrote |-> FALSE]

Stylesheet == <<"gallery.css bytes">>
DetailStylesheet == <<"details.css bytes">>

\* res.end(data): the first call sends the response, later calls send nothing
End(res, data) ==
  IF res.sent THEN [res EXCEPT !.ends = @ + 1]
  ELSE [res EXCEPT !.sent = TRUE, !.status = res.statusCode, !.body = data,
                   !.ends = @ + 1]

SetStatus(res, code) == [res EXCEPT !.statusCode = code]

\* res.setHeader('Content-Type', t) throws once the headers were sent
SetHeaderThrows(res) == res.sent
SetHeader(res, t) == [res EXCEPT !.ctype = t]

Fail(req, code, text) ==
  [req EXCEPT !.res = End(SetStatus(req.res, code), text)]

(***************************************************************************)
(* handleRequest: the dispatch on method and path.  The result names the   *)
(* handler that runs and the file it will read.                            *)
(***************************************************************************)
\* a faulty serveImage: it reads the path without percent-decoding it
ServeImageCallRaw(fileName, def) ==
  [act |-> "image", path |-> <<"images", "/">> \o (IF def THEN fileName ELSE Undefined)]

\* serveImage(fileName, req, res): fileName = <<>> with def = FALSE is undefined
ServeImageCall(fileName, def) ==
  LET name == IF def THEN fileName ELSE Undefined
  IN  IF DecodeThrows(name) THEN [act |-> "throw", path |-> <<>>]
      ELSE [act |-> "image", path |-> <<"images", "/">> \o decodeURIComponent(name)]

\* serveDetail(filename, req, res): undefined.split throws
ServeDetailCall(fileName, def) ==
  IF ~def THEN [act |-> "throw", path |-> <<>>]
  ELSE [act |-> "detail", path |-> CatalogPath(fileName)]

Dispatch(method, url) ==
  LET pathname == UrlParse(url).pathname
      pathParts == Split(pathname, "/")
  IN  IF pathname \in {<<"/">>, <<"/", "gallery">>}
        THEN IF method = "GET" THEN [act |-> "gallery", path |-> <<>>]
             ELSE IF method = "POST" THEN [act |-> "upload", path |-> <<>>]
             ELSE [act |-> "none", path |-> <<>>]
      ELSE IF pathname = <<"/", "gallery", ".", "css">>
        THEN [act |-> "css", path |-> <<>>]
      ELSE IF HasIndex(pathParts, 2) /\ pathParts[2] = <<"detail">>
        THEN IF ~HasIndex(pathParts, 3) THEN ServeDetailCall(<<>>, FALSE)
             ELSE IF pathParts[3] = <<"images">>
               THEN IF HasIndex(pathParts, 4) THEN ServeImageCall(pathParts[4], TRUE)
                    ELSE ServeImageCall(<<>>, FALSE)
             ELSE IF pathParts[3] = <<"details", ".", "css">>
               THEN [act |-> "detailcss", path |-> <<>>]
             ELSE IF pathParts[3] \in {<<"details", ".", "json">>, <<"gallery", ".", "json">>}
               THEN [act |-> "none", path |-> <<>>]
             ELSE ServeDetailCall(pathParts[3], TRUE)
      ELSE ServeImageCall(url, TRUE)

\* a faulty dispatch: it answers both stylesheet paths with gallery.css
DispatchedOneSheet(req, d) ==
  IF d.act = "gallery" THEN [req EXCEPT !.pending = {"readdir"}]
  ELSE IF d.act = "upload" THEN [req EXCEPT !.pending = {"body"}]
  ELSE IF d.act \in {"css", "detailcss"}
    THEN [req EXCEPT !.res = End(SetHeader(req.res, "text/css"), Stylesheet)]
  ELSE IF d.act = "image" THEN [req EXCEPT !.pending = {"readImage"}, !.path = d.path]
  ELSE IF d.act = "detail" THEN [req EXCEPT !.pending = {"readCatalog"}, !.path = d.path]
  ELSE req

\* the request as handleRequest leaves it for the handler it dispatched to
Dispatched(req, d) ==
  IF d.act = "gallery" THEN [req EXCEPT !.pending = {"readdir"}]
  ELSE IF d.act = "upload" THEN [req EXCEPT !.pending = {"body"}]
  ELSE IF d.act = "css"
    THEN [req EXCEPT !.res = End(SetHeader(req.res, "text/css"), Stylesheet)]
  ELSE IF d.act = "detailcss"
    THEN [req EXCEPT !.res = End(SetHeader(req.res, "text/css"), DetailStylesheet)]
  ELSE IF d.act = "image" THEN [req EXCEPT !.pending = {"readImage"}, !.path = d.path]
  ELSE IF d.act = "detail" THEN [req EXCEPT !.pending = {"readCatalog"}, !.path = d.path]
  ELSE req

\* the title handleRequest stores: [set, throws, title]
TitleParam(url) ==
  LET query == UrlParse(url).query
  IN  IF query # <<>> /\ HasTitleMatch(query)
        THEN [set |-> ~DecodeThrows(TitleMatch(query)),
              throws |-> DecodeThrows(TitleMatch(query)),
              title |-> decodeURIComponent(TitleMatch(query))]
        ELSE [set |-> FALSE, throws |-> FALSE, title |-> <<>>]

(***************************************************************************)
(* History, kept for the statements about a request that follows an        *)
(* upload.  stored holds [name, data, prev] (and the title and description *)
(* of the form) for the upload of name last                                *)
(* answered with the gallery page whose bytes no later write replaced;     *)
(* prev is the payload of an earlier such upload of the name that had been *)
(* answered when this one arrived (<<>> when there was none).  A GET notes *)
(* in seen the names stored when it arrived, an upload notes in pred the   *)
(* payload stored for its file name; a later write of a name strikes it    *)
(* from stored and seen.  lastw marks the upload that wrote its image file *)
(* last, werr the upload one of whose writes failed, wrote the upload one  *)
(* of whose writes put a file on the disk.                                 *)
(***************************************************************************)
Without(h, name) == {e \in h : e.name # name}
Holds(h, name) == \E e \in h : e.name = name
DataIn(h, name) == (CHOOSE e \in h : e.name = name).data

\* a request with nothing left to run
Completed(req) == req.state = "active" /\ req.pending = {}

\* what stays of a request after a step: nothing once it has nothing left to
\* run; of a response that was sent, what was sent (nothing the code assigns
\* to it afterwards reaches the client)
Kept(new) ==
  IF new.pending = {} THEN Idle
  ELSE IF new.res.sent
    THEN [new EXCEPT !.res.statusCode = new.res.status, !.res.ends = 1]
  ELSE new

\* a step that turns request r from old into new: last shows the request
\* when the step answers it, calls res.end on it again, finishes it or throws
Noted(old, new, throws) ==
  IF (new.res.sent /\ ~old.res.sent) \/ new.res.ends > 1 \/ new.pending = {} \/ throws
    THEN new ELSE Idle

Settle(r, new, throws) ==
  /\ reqs' = [reqs EXCEPT ![r] = Kept(new)]
  /\ last' = Noted(reqs[r], new, throws)
  /\ alive' = ~throws

HandleRequest(r, q) ==
  /\ alive
  /\ reqs[r].state = "idle"
  /\ \A s \in DOMAIN reqs : s < r => reqs[s].state # "idle"
  /\ TitleParam(q.url).set => Len(cfgWrites) < MaxCfgWrites
  /\ LET t == TitleParam(q.url)
         d == Dispatch(q.method, q.url)
         req == [Idle EXCEPT !.state = "active", !.method = q.method, !.url = q.url,
                             !.body = q.body,
                             !.seen = IF q.method = "GET" THEN {e.name : e \in stored} ELSE {},
                             !.pred = IF q.method = "POST" /\ Holds(stored, q.body.filename)
                                        THEN DataIn(stored, q.body.filename)
                                        ELSE <<>>]
     IN  /\ config' = IF t.set THEN t.title ELSE config
         /\ cfgWrites' = IF t.set THEN Append(cfgWrites, StringifyConfig(t.title))
                         ELSE cfgWrites
         /\ Settle(r, IF t.throws THEN req ELSE Dispatched(req, d),
                   t.throws \/ d.act = "throw")
  /\ UNCHANGED <<configFile, images, catalog, stored>>

\* fs.writeFile('config.json', ...) completes: the started writes end in any order
ConfigWriteDone(i, err) ==
  /\ alive
  /\ i \in DOMAIN cfgWrites
  /\ configFile' = IF err THEN configFile ELSE cfgWrites[i]
  /\ cfgWrites' = [j \in 1..(Len(cfgWrites) - 1) |->
                     IF j < i THEN cfgWrites[j] ELSE cfgWrites[j + 1]]
  /\ last' = Idle
  /\ UNCHANGED <<alive, config, images, catalog, reqs, stored>>

(***************************************************************************)
(* The upload: multipart(req, res, next) parses the body and calls next;   *)
(* handleRequest starts uploadImage and then uploadJSON on the same        *)
(* request, so both callbacks run when the body has arrived.               *)
(***************************************************************************)
UploadImageCallback(req) ==
  IF req.body.filename = <<>> THEN Fail(req, 400, <<"No file specified">>)
  ELSE [req EXCEPT !.pending = @ \cup {"writeImage"}]

\* a faulty callback of uploadJSON: it does not look at the description
UploadJSONCallbackLax(req) ==
  IF req.body.title = <<>> THEN Fail(req, 400, <<"No title specified">>)
  ELSE [req EXCEPT !.pending = @ \cup {"writeCatalog"}]

UploadJSONCallback(req) ==
  IF req.body.title = <<>> THEN Fail(req, 400, <<"No title specified">>)
  ELSE IF req.body.description = <<>> THEN Fail(req, 400, <<"No description specified">>)
  ELSE [req EXCEPT !.pending = @ \cup {"writeCatalog"}]

MultipartEnd(r) ==
  /\ alive
  /\ "body" \in reqs[r].pending
  /\ Settle(r, UploadJSONCallback(UploadImageCallback(
                 [reqs[r] EXCEPT !.pending = @ \ {"body"}])), FALSE)
  /\ UNCHANGED <<config, configFile, cfgWrites, images, catalog, stored>>

ImagePath(req) == <<"images", "/">> \o req.body.filename

\* the callback of uploadImage's fs.writeFile
ImageWritten(req, err) ==
  IF err THEN Fail(req, 500, <<"Server Error">>)
  ELSE [req EXCEPT !.pending = @ \cup {"readdir"}]

WriteImageDone(r, err) ==
  /\ alive
  /\ "writeImage" \in reqs[r].pending
  /\ LET req == [reqs[r] EXCEPT !.pending = @ \ {"writeImage"}]
         name == EntryName(ImagePath(req), "images")
         new == [ImageWritten(req, err) EXCEPT !.lastw = ~err, !.werr = @ \/ err,
                                               !.wrote = @ \/ ~err]
     IN  /\ name = NoName => err
         /\ images' = IF err THEN images ELSE Store(images, name, req.body.data)
         /\ stored' = IF err THEN stored ELSE Without(stored, name)
         /\ reqs' = [s \in DOMAIN reqs |->
                       IF s = r THEN Kept(new)
                       ELSE IF err THEN reqs[s]
                       ELSE [reqs[s] EXCEPT
                               !.seen = @ \ {name},
                               !.lastw = @ /\ EntryName(ImagePath(reqs[s]), "images") # name]]
         /\ last' = Noted(reqs[r], new, FALSE)
  /\ UNCHANGED <<alive, config, configFile, cfgWrites, catalog>>

\* the callback of uploadJSON's fs.writeFile
CatalogWritten(req, err) ==
  IF err THEN Fail(req, 500, <<"Server Error">>) ELSE req

WriteCatalogDone(r, err) ==
  /\ alive
  /\ "writeCatalog" \in reqs[r].pending
  /\ LET req == [reqs[r] EXCEPT !.pending = @ \ {"writeCatalog"}]
         name == EntryName(CatalogPath(req.body.filename), "catalog")
         text == CatalogText(req.body.filename, req.body.title, req.body.description)
     IN  /\ name = NoName => err
         /\ catalog' = IF err THEN catalog
                       ELSE Without(catalog, name) \cup {[name |-> name, data |-> text]}
         /\ Settle(r, [CatalogWritten(req, err) EXCEPT !.werr = @ \/ err,
                                                        !.wrote = @ \/ ~err], FALSE)
  /\ UNCHANGED <<config, configFile, cfgWrites, images, stored>>

(***************************************************************************)
(* The callbacks of the reads.  Each gives the request as the callback     *)
(* leaves it, and whether the callback throws (which ends the process).    *)
(***************************************************************************)
\* serveGallery's callback of getImageNames
GalleryListed(req, err, imageNames, title) ==
  IF err THEN [req |-> Fail(req, 500, <<>>), throws |-> FALSE]
  ELSE IF SetHeaderThrows(req.res) THEN [req |-> req, throws |-> TRUE]
  ELSE [req |-> [req EXCEPT !.res = End(SetHeader(req.res, "text/html"),
                                        buildGallery(imageNames, title).html)],
        throws |-> FALSE]

\* fs.readdir('images/') reads a directory that exists: it lists it
ReaddirDone(r) ==
  /\ alive
  /\ "readdir" \in reqs[r].pending
  /\ LET up == reqs[r]
         out == GalleryListed([up EXCEPT !.pending = @ \ {"readdir"}], FALSE,
                              Names(images), config)
     IN  /\ Settle(r, out.req, out.throws)
         /\ stored' = IF up.lastw /\ ~up.res.sent /\ ~out.throws
                        THEN Without(stored, up.body.filename)
                               \cup {[name |-> up.body.filename, data |-> up.body.data,
                                      prev |-> up.pred, title |-> up.body.title,
                                      description |-> up.body.description]}
                        ELSE stored
  /\ UNCHANGED <<config, configFile, cfgWrites, images, catalog>>

\* a faulty callback of serveImage: it ends the response without the data
ImageReadEmpty(req, err, data) ==
  IF err THEN [req |-> Fail(req, 404, <<>>), throws |-> FALSE]
  ELSE [req |-> [req EXCEPT !.res = End(SetHeader(req.res, "image/*"), <<>>)],
        throws |-> FALSE]

\* serveImage's callback of fs.readFile
ImageRead(req, err, data) ==
  IF err THEN [req |-> Fail(req, 404, <<>>), throws |-> FALSE]
  ELSE IF SetHeaderThrows(req.res) THEN [req |-> req, throws |-> TRUE]
  ELSE [req |-> [req EXCEPT !.res = End(SetHeader(req.res, "image/*"), data)],
        throws |-> FALSE]

\* fs.readFile fails exactly when the path names no file
ReadImageDone(r) ==
  /\ alive
  /\ "readImage" \in reqs[r].pending
  /\ LET name == EntryName(reqs[r].path, "images")
         err == name = NoName \/ ~Exists(images, name)
         out == ImageRead([reqs[r] EXCEPT !.pending = @ \ {"readImage"}], err,
                          IF err THEN <<>> ELSE DataOf(images, name))
     IN  Settle(r, out.req, out.throws)
  /\ UNCHANGED <<config, configFile, cfgWrites, images, catalog, stored>>

\* serveDetail's callback of fs.readFile
DetailRead(req, err, data) ==
  IF err THEN [req |-> Fail(req, 500, <<>>), throws |-> FALSE]
  ELSE IF SetHeaderThrows(req.res) \/ ~JSONParse(data).ok
          \/ ~buildDetail(req.url, JSONParse(data).val).ok
    THEN [req |-> req, throws |-> TRUE]
  ELSE [req |-> [req EXCEPT !.res = End(SetHeader(req.res, "text/html"),
                                        buildDetail(req.url, JSONParse(data).val).html)],
        throws |-> FALSE]

ReadCatalogDone(r) ==
  /\ alive
  /\ "readCatalog" \in reqs[r].pending
  /\ LET name == EntryName(reqs[r].path, "catalog")
         err == name = NoName \/ ~Holds(catalog, name)
         out == DetailRead([reqs[r] EXCEPT !.pending = @ \ {"readCatalog"}], err,
                           IF err THEN <<>>
                           ELSE DataIn(catalog, name))
     IN  Settle(r, out.req, out.throws)
  /\ UNCHANGED <<config, configFile, cfgWrites, images, catalog, stored>>

(***************************************************************************)
(* Inputs: the requests clients send and the files the server starts with. *)
(***************************************************************************)
Get(url) == [method |-> "GET", url |-> url, body |-> NoBody]

Post(url, filename, data, title, description) ==
  [method |-> "POST", url |-> url,
   body |-> [filename |-> filename, data |-> data, title |-> title,
             description |-> description]]

\* GET /<f> as a client sends it for the file name f
UrlOf(f) == <<"/">> \o encodeURIComponent(f)
DetailUrlOf(n) == <<"/", "detail", "/">> \o encodeURIComponent(n)
Entry(name, data) == [name |-> name, data |-> data]

XPng == <<"x", ".", "png">>
GalleryName == <<"gallery">>
BytesA == <<"A">>
BytesB == <<"B">>
TitleT == <<"T">>
DescD == <<"D">>
Title0 == <<"Gallery">>
GalleryUrl == <<"/", "gallery">>

InitOn(disks) ==
  /\ alive = TRUE
  /\ configFile = StringifyConfig(Title0)
  /\ config = Prop(JSONParse(configFile).val, <<"title">>).s
  /\ cfgWrites = <<>>
  /\ \E d \in disks : images = d.images /\ catalog = d.catalog
  /\ reqs = [s \in 1..MaxInFlight |-> Idle]
  /\ last = Idle
  /\ stored = {}

EmptyDisk == [images |-> <<>>, catalog |-> {}]

\* a client sends a request of R
Arrive(R) == \E r \in DOMAIN reqs : \E q \in R : HandleRequest(r, q)

BodyArrives == \E r \in DOMAIN reqs : MultipartEnd(r)
\* a write ends, with an outcome of E (TRUE: it failed)
ImageWriteEnds(E) == \E r \in DOMAIN reqs : \E err \in E : WriteImageDone(r, err)
CatalogWriteEnds(E) == \E r \in DOMAIN reqs : \E err \in E : WriteCatalogDone(r, err)
ReaddirEnds == \E r \in DOMAIN reqs : ReaddirDone(r)
ImageReadEnds == \E r \in DOMAIN reqs : ReadImageDone(r)
CatalogReadEnds == \E r \in DOMAIN reqs : ReadCatalogDone(r)
ConfigWriteEnds == \E i \in DOMAIN cfgWrites : \E err \in BOOLEAN : ConfigWriteDone(i, err)

(***************************************************************************)
(* Spec: uploads of images and the requests that read them back.  The      *)
(* image writes succeed or fail; the catalog files, which no request of     *)
(* this specification reads, are written (SpecForm has their failures).     *)
(***************************************************************************)
UploadRequests ==
  { Post(GalleryUrl, XPng, b, TitleT, DescD) : b \in {BytesA, BytesB} }
  \cup { Post(GalleryUrl, GalleryName, BytesA, TitleT, DescD) }
  \cup { Get(UrlOf(f)) : f \in {XPng, GalleryName} }

Init == InitOn({EmptyDisk})

Next ==
  \/ Arrive(UploadRequests)
  \/ BodyArrives
  \/ ImageWriteEnds(BOOLEAN)
  \/ CatalogWriteEnds({FALSE})
  \/ ReaddirEnds
  \/ ImageReadEnds

Spec == Init /\ [][Next]_vars

(***************************************************************************)
(* SpecServe: GET requests on a server that starts with files in images/   *)
(* and catalog/.                                                           *)
(***************************************************************************)
SpaceName == <<"a", " ", "b", ".", "png">>
DetailName == <<"detail">>
CssName == <<"gallery", ".", "css">>
YPng == <<"y", ".", "png">>
QuoteTitle == <<"say", Q, "hi", Q>>

FileNames == {XPng, YPng, SpaceName, GalleryName, DetailName, CssName}

\* the entry of catalog/ an upload of filename with this title writes
CatalogEntry(filename, title, description) ==
  Entry(EntryName(CatalogPath(filename), "catalog"),
        CatalogText(filename, title, description))

ServeImages ==
  { <<>>,
    <<Entry(XPng, BytesA)>>,
    <<Entry(SpaceName, BytesB), Entry(XPng, BytesA)>>,
    <<Entry(GalleryName, BytesA), Entry(CssName, BytesB), Entry(DetailName, BytesA)>> }

ServeCatalogs ==
  { {},
    {CatalogEntry(XPng, TitleT, DescD)},
    {CatalogEntry(XPng, QuoteTitle, DescD)},
    {CatalogEntry(<<"details", ".", "json">>, TitleT, DescD),
     CatalogEntry(YPng, TitleT, DescD)} }

ServeDisks == { [images |-> i, catalog |-> c] : i \in ServeImages, c \in ServeCatalogs }

DetailNames ==
  { XPng, YPng, <<"x">>, <<"details", ".", "json">>, <<"gallery", ".", "json">>,
    <<"details", ".", "css">> }

ServeRequests ==
  { Get(UrlOf(f)) : f \in FileNames }
  \cup { Get(<<"/">>) }
  \cup { Get(DetailUrlOf(n)) : n \in DetailNames }
  \cup { Get(<<"/", "detail", "/", "images", "/">> \o XPng) }

InitServe == InitOn(ServeDisks)

NextServe ==
  \/ Arrive(ServeRequests)
  \/ ReaddirEnds
  \/ ImageReadEnds
  \/ CatalogReadEnds

SpecServe == InitServe /\ [][NextServe]_vars

(***************************************************************************)
(* SpecForm: uploads whose form lacks a field or carries a double quote,   *)
(* writes that fail, and the detail page of the uploaded image.            *)
(***************************************************************************)
FormRequests ==
  { Post(GalleryUrl, XPng, BytesA, TitleT, DescD),
    Post(GalleryUrl, <<>>, <<>>, TitleT, DescD),
    Post(GalleryUrl, XPng, BytesA, <<>>, DescD),
    Post(GalleryUrl, XPng, BytesA, TitleT, <<>>),
    Post(<<"/">>, <<>>, <<>>, <<>>, <<>>),
    Post(GalleryUrl, XPng, BytesA, QuoteTitle, DescD),
    Get(DetailUrlOf(XPng)) }

InitForm == InitOn({EmptyDisk})

NextForm ==
  \/ Arrive(FormRequests)
  \/ BodyArrives
  \/ ImageWriteEnds(BOOLEAN)
  \/ CatalogWriteEnds(BOOLEAN)
  \/ ReaddirEnds
  \/ CatalogReadEnds

SpecForm == InitForm /\ [][NextForm]_vars

(***************************************************************************)
(* SpecTitle: requests that set the title, the writes of config.json they  *)
(* start, and the gallery page.                                            *)
(***************************************************************************)
MyGallery == <<"My", " ", "Gallery">>
TitleB == <<"B">>
Titles == {MyGallery, TitleB}
TitlePaths == {GalleryUrl, <<"/", "gallery", ".", "css">>}

\* the URL p?title=<T> as a client writes it
TitleUrl(p, T) == p \o <<"?", "title", "=">> \o encodeURIComponent(T)

TitleRequests ==
  { Get(TitleUrl(p, T)) : p \in TitlePaths, T \in Titles } \cup { Get(GalleryUrl) }

InitTitle == InitOn({[images |-> <<Entry(XPng, BytesA)>>, catalog |-> {}]})

NextTitle ==
  \/ Arrive(TitleRequests)
  \/ ReaddirEnds
  \/ ConfigWriteEnds

SpecTitle == InitTitle /\ [][NextTitle]_vars

(***************************************************************************)
(* SpecCss: the stylesheet paths, on a server that receives uploads of     *)
(* files named like the stylesheets.                                       *)
(***************************************************************************)
DetailsCssName == <<"details", ".", "css">>
GalleryCssUrl == <<"/", "gallery", ".", "css">>
DetailsCssUrl == <<"/", "details", ".", "css">>
DetailDetailsCssUrl == <<"/", "detail", "/", "details", ".", "css">>

CssRequests ==
  { Post(GalleryUrl, CssName, BytesA, TitleT, DescD),
    Post(GalleryUrl, DetailsCssName, BytesB, TitleT, DescD),
    Get(GalleryCssUrl), Get(DetailsCssUrl), Get(DetailDetailsCssUrl) }

InitCss == InitOn({EmptyDisk})

NextCss ==
  \/ Arrive(CssRequests)
  \/ BodyArrives
  \/ ImageWriteEnds(BOOLEAN)
  \/ CatalogWriteEnds(BOOLEAN)
  \/ ReaddirEnds
  \/ ImageReadEnds

SpecCss == InitCss /\ [][NextCss]_vars

(***************************************************************************)
(* SpecPair: uploads of images next to an image that is there, each with a *)
(* title and a description of its own, and the detail pages.  The image    *)
(* writes succeed; the catalog writes succeed or fail.                     *)
(***************************************************************************)
XJpg == <<"x", ".", "jpg">>
PairNames == {XPng, XJpg, YPng}

\* the title and the description the form of each image carries
TitleFor(f) == IF f = XPng THEN <<"title of x.png">>
               ELSE IF f = XJpg THEN <<"title of x.jpg">> ELSE <<"title of y.png">>
DescFor(f) == IF f = XPng THEN <<"about x.png">>
              ELSE IF f = XJpg THEN <<"about x.jpg">> ELSE <<"about y.png">>

PairRequests ==
  { Post(GalleryUrl, f, BytesA, TitleFor(f), DescFor(f)) : f \in {XJpg, YPng} }
  \cup { Get(DetailUrlOf(f)) : f \in {XPng, YPng} }

\* the server starts with the image x.png and its catalog entry
InitPair ==
  InitOn({[images |-> <<Entry(XPng, BytesA)>>,
           catalog |-> {CatalogEntry(XPng, TitleFor(XPng), DescFor(XPng))}]})

NextPair ==
  \/ Arrive(PairRequests)
  \/ BodyArrives
  \/ ImageWriteEnds({FALSE})
  \/ CatalogWriteEnds(BOOLEAN)
  \/ ReaddirEnds
  \/ CatalogReadEnds

SpecPair == InitPair /\ [][NextPair]_vars

(***************************************************************************)
(* SpecQuery: requests for /gallery.css with query strings of several      *)
(* parameters.  The stylesheet is sent by handleRequest itself, so the     *)
(* step that answers such a request is the step that handled it.           *)
(***************************************************************************)
Queries ==
  { <<"title", "=", "B">>,
    <<"title", "=", "My", "%20", "Gallery">>,
    <<"x", "=", "1">>,
    <<"x", "=", "1", "&", "title", "=", "B">>,
    <<"title", "=", "B", "&", "x", "=", "1">>,
    <<"sub", "title", "=", "Z">> }

QueryUrl(q) == GalleryCssUrl \o <<"?">> \o q

QueryRequests == { Get(QueryUrl(q)) : q \in Queries }

InitQuery == InitOn({EmptyDisk})

NextQuery ==
  \/ Arrive(QueryRequests)
  \/ ConfigWriteEnds

SpecQuery == InitQuery /\ [][NextQuery]_vars

(***************************************************************************)
(* SpecSame: each path requested without and with a title parameter, on a  *)
(* server that holds the image x.png and its catalog entry.                *)
(***************************************************************************)
SamePaths ==
  { GalleryUrl, GalleryCssUrl, DetailDetailsCssUrl, DetailUrlOf(XPng), UrlOf(XPng),
    UrlOf(YPng) }

SameRequests ==
  { Get(p) : p \in SamePaths } \cup { Get(TitleUrl(p, TitleB)) : p \in SamePaths }

InitSame ==
  InitOn({[images |-> <<Entry(XPng, BytesA)>>,
           catalog |-> {CatalogEntry(XPng, TitleT, DescD)}]})

NextSame ==
  \/ Arrive(SameRequests)
  \/ ReaddirEnds
  \/ ImageReadEnds
  \/ CatalogReadEnds
  \/ ConfigWriteEnds

SpecSame == InitSame /\ [][NextSame]_vars

(***************************************************************************)
(* Reading a page the way a client does.                                   *)
(***************************************************************************)
\* the text from position i up to the next double quote
RECURSIVE UpToQuote(_, _)
UpToQuote(html, i) ==
  IF i > Len(html) \/ html[i] = Q THEN <<>> ELSE <<html[i]>> \o UpToQuote(html, i + 1)

\* the values of the attributes opened by the token attr, in page order
RECURSIVE AttrsFrom(_, _, _)
AttrsFrom(html, attr, i) ==
  IF i + 1 > Len(html) THEN <<>>
  ELSE IF html[i] = attr /\ html[i + 1] = Q
    THEN <<UpToQuote(html, i + 2)>> \o AttrsFrom(html, attr, i + 1)
  ELSE AttrsFrom(html, attr, i + 1)

Hrefs(html) == AttrsFrom(html, "<a href=", 1)
Srcs(html) == AttrsFrom(html, "><img src=", 1)
Alts(html) == AttrsFrom(html, " alt=", 1)

Count(xs, x) == Cardinality({i \in DOMAIN xs : xs[i] = x})

\* the uploads a request saw answered when it arrived, still in place
Seen == {e \in stored : e.name \in last.seen}

\* the file names the router answers with a page of its own
IsRoute(f) == f \in {<<"gallery">>, <<"gallery", ".", "css">>, <<"detail">>}

LastIsGet(url) == last.state = "active" /\ last.method = "GET" /\ last.url = url

\* the text s stands somewhere in html
Contains(html, s) ==
  \E i \in 1..(Len(html) + 1) :
    i + Len(s) - 1 <= Len(html) /\ SubSeq(html, i, i + Len(s) - 1) = s

\* the file of catalog/ that holds the entry of the name n
CatalogFile(n) == EntryName(CatalogPath(n), "catalog")

\* a field of the entry a catalog file holds (<<>> when it holds none)
EntryField(data, key) == Prop(Prop(JSONParse(data).val, <<"image">>), key).s
Answer(status, body) ==
  last.res.sent /\ last.res.status = status /\ last.res.body = body

(***************************************************************************)
(* The claims.                                                             *)
(***************************************************************************)
\* C1 as stated: for every file name f and payload B, a GET /f that arrives
\* after an upload of f with B was answered with the gallery page (and before
\* any later write of f) is answered 200 with body B.
UploadRoundTripAnyName ==
  \A e \in Seen :
    LastIsGet(UrlOf(e.name)) => Answer(200, e.data)

\* C1 amended: the same for every file name that is not the path of one of
\* the router's own pages (gallery, gallery.css, detail).
UploadRoundTrip ==
  \A e \in Seen :
    LastIsGet(UrlOf(e.name)) /\ ~IsRoute(e.name) => Answer(200, e.data)

UploadRoundTripWitness ==
  \E e \in Seen :
    /\ LastIsGet(UrlOf(e.name)) /\ ~IsRoute(e.name)
    /\ e.data = BytesB /\ Answer(200, BytesB)

\* C2 as stated: for every file name f in images/, GET /f is answered 200
\* with the bytes of images/f, whatever the name is.
ImageServedAnyName ==
  \A f \in FileNames :
    LastIsGet(UrlOf(f)) /\ Exists(images, f) => Answer(200, DataOf(images, f))

\* C2 amended: the same for every file name of images/ that is not the path
\* of one of the router's own pages (gallery, gallery.css, detail).
ImageServed ==
  \A f \in FileNames :
    LastIsGet(UrlOf(f)) /\ Exists(images, f) /\ ~IsRoute(f)
      => Answer(200, DataOf(images, f))

ImageServedWitness ==
  /\ LastIsGet(UrlOf(SpaceName)) /\ Exists(images, SpaceName)
  /\ Answer(200, BytesB) /\ last.res.ctype = "image/*"

\* C3: for every file name f that is not in images/, GET /f is answered 404
\* and nothing else, and the server does not fail while handling it.
AbsentImageIs404 ==
  \A f \in FileNames :
    LastIsGet(UrlOf(f)) /\ ~Exists(images, f)
      => alive /\ last.res.sent /\ last.res.status = 404

SecondUploadOverwritesAnyName ==
  \A e \in Seen :
    e.prev # <<>> =>
      /\ LastIsGet(UrlOf(e.name)) => Answer(200, e.data)
      /\ (LastIsGet(GalleryUrl) \/ LastIsGet(<<"/">>)) /\ last.res.sent
           => Count(Srcs(last.res.body), e.name) = 1

\* C8 amended: the GET /f part holds for every file name that is not the
\* path of one of the router's own pages; the gallery lists f once for all.
SecondUploadOverwrites ==
  \A e \in Seen :
    e.prev # <<>> =>
      /\ LastIsGet(UrlOf(e.name)) /\ ~IsRoute(e.name) => Answer(200, e.data)
      /\ (LastIsGet(GalleryUrl) \/ LastIsGet(<<"/">>)) /\ last.res.sent
           => Count(Srcs(last.res.body), e.name) = 1

SecondUploadOverwritesWitness ==
  \E e \in Seen :
    /\ e.name = XPng /\ e.prev = BytesA /\ e.data = BytesB
    /\ LastIsGet(UrlOf(XPng)) /\ Answer(200, BytesB)

\* C5: for every name n, GET /detail/n is answered 200 with a page that
\* contains the title and the description of the entry when the catalog file
\* of n exists, and 500 when it does not; no n is left without an answer.
DetailAnsweredForEveryName ==
  \A n \in DetailNames :
    LastIsGet(DetailUrlOf(n)) =>
      /\ last.res.sent
      /\ IF Holds(catalog, CatalogFile(n))
           THEN /\ last.res.status = 200
                /\ Contains(last.res.body, EntryField(DataIn(catalog, CatalogFile(n)), <<"title">>))
                /\ Contains(last.res.body,
                            EntryField(DataIn(catalog, CatalogFile(n)), <<"description">>))
           ELSE last.res.status = 500

LastIsPost == last.state = "active" /\ last.method = "POST"

FailedWriteIs500 ==
  LastIsPost /\ last.werr => last.res.sent /\ last.res.status = 500

\* C10: GET /detail/n is answered 500 when the catalog file of n holds no
\* valid JSON, a file the server wrote itself for a title with a double
\* quote included, and the server goes on serving.
InvalidCatalogIs500 ==
  \A n \in DetailNames :
    LastIsGet(DetailUrlOf(n)) /\ Holds(catalog, CatalogFile(n))
      /\ ~JSONParse(DataIn(catalog, CatalogFile(n))).ok
      => alive /\ last.res.sent /\ last.res.status = 500

\* C7: once a request with title=T in its query string is answered, and
\* until another title is set, config.json holds {"title": T} and the
\* gallery page shows T as its title.
TitleShownAndStored ==
  \A T \in Titles :
    config = T =>
      /\ \A p \in TitlePaths :
           LastIsGet(TitleUrl(p, T)) /\ last.res.sent => configFile = StringifyConfig(T)
      /\ \A p \in {GalleryUrl, TitleUrl(GalleryUrl, T)} :
           LastIsGet(p) /\ last.res.sent
             => Contains(last.res.body, <<"<h1>">> \o T \o <<"</h1>">>)

\* the response is the stylesheet sheet, sent as text/css with status 200
AnswerCss(sheet) == Answer(200, sheet) /\ last.res.ctype = "text/css"

\* C11 as stated: GET /gallery.css and GET /details.css are answered 200,
\* text/css, with the bytes of the stylesheet loaded at startup, whatever
\* was uploaded since.
StylesheetsAtRoot ==
  /\ LastIsGet(GalleryCssUrl) => AnswerCss(Stylesheet)
  /\ LastIsGet(DetailsCssUrl) => AnswerCss(DetailStylesheet)

\* C11 amended: the same for GET /gallery.css and GET /detail/details.css.
StylesheetsServed ==
  /\ LastIsGet(GalleryCssUrl) => AnswerCss(Stylesheet)
  /\ LastIsGet(DetailDetailsCssUrl) => AnswerCss(DetailStylesheet)

StylesheetsServedWitness ==
  /\ LastIsGet(DetailDetailsCssUrl) /\ AnswerCss(DetailStylesheet)
  /\ Exists(images, DetailsCssName) /\ Exists(images, CssName)

\* C12: the response of every request is ended exactly once: res.end is
\* never called twice for it, and a request that has nothing left to run (or
\* whose handler threw) is not left without a response.
EndedExactlyOnce ==
  last.state = "active" =>
    /\ last.res.ends <= 1
    /\ last.pending = {} \/ ~alive => last.res.ends = 1

\* C13: once every started write of config.json has ended, config.json holds
\* the title in memory, the title of the request handled last.
ConfigFileFollowsMemory ==
  cfgWrites = <<>> => configFile = StringifyConfig(config)

\* C14: a GET /detail/f that arrives after an upload of f with title T and
\* description D was answered 200 is answered 200 with a page that shows T
\* and D.
DetailFollowsUpload ==
  \A e \in Seen :
    LastIsGet(DetailUrlOf(e.name)) =>
      /\ last.res.sent /\ last.res.status = 200
      /\ Contains(last.res.body, e.title)
      /\ Contains(last.res.body, e.description)

\* C15: an upload that is answered 400 creates or overwrites no file of
\* images/ and no file of catalog/.
RejectedUploadWritesNothing ==
  LastIsPost /\ last.res.sent /\ last.res.status = 400 => ~last.wrote

\* the detail page sent shows the title and the description of the form of f
ShowsEntryOf(f) ==
  /\ Contains(last.res.body, <<"<h2>">> \o TitleFor(f) \o <<"</h2>">>)
  /\ Contains(last.res.body, <<"<p>">> \o DescFor(f) \o <<"</p>">>)

\* the part of a file name that names its catalog file
Stem(f) == Split(f, ".")[1]

Params(query) == Split(query, "&")
ParamName(p) == Split(p, "=")[1]
ParamValue(p) ==
  IF IndexFrom(p, "=", 1) = 0 THEN <<>> ELSE SubSeq(p, IndexFrom(p, "=", 1) + 1, Len(p))
HasParam(query, name) == \E i \in DOMAIN Params(query) : ParamName(Params(query)[i]) = name
ValueOf(query, name) ==
  LET ps == Params(query)
      i == CHOOSE j \in DOMAIN ps :
             ParamName(ps[j]) = name /\ \A k \in 1..(j - 1) : ParamName(ps[k]) # name
  IN  ParamValue(ps[i])

\* C17: handling a request leaves as config title the percent-decoded value
\* of the parameter named title when the query string has one, wherever it
\* stands, and the title it found otherwise.
TitleIsTheParameter ==
  [][\A q \in Queries :
       last'.state = "active" /\ last'.url = QueryUrl(q)
         => config' = IF HasParam(q, <<"title">>)
                        THEN decodeURIComponent(ValueOf(q, <<"title">>))
                        ELSE config]_vars

\* the status GET p is answered with on the disk of SpecSame: 404 for the
\* image that is not there, 200 for the pages, the stylesheets and x.png
PlainStatus(p) == IF p = UrlOf(YPng) THEN 404 ELSE 200

\* GET p is answered as PlainStatus says
PlainAnswers ==
  \A p \in SamePaths :
    LastIsGet(p) => last.res.sent /\ last.res.status = PlainStatus(p)

\* C18: for every path p, GET p?title=T is answered with the status of
\* GET p, and with the same resource (for an image, its bytes).
SameWithTitle ==
  /\ PlainAnswers
  /\ \A p \in SamePaths :
       LastIsGet(TitleUrl(p, TitleB)) =>
         /\ last.res.sent /\ last.res.status = PlainStatus(p)
         /\ p = UrlOf(XPng) => last.res.body = BytesA

====
